---- MODULE Spec2Model ----
(***************************************************************************)
(* pso2-modpatcher (src/src/main.rs): the directory walker                 *)
(* iterate_patch_directory and the group merger apply_directory, as a      *)
(* state machine over two file trees.                                      *)
(*                                                                         *)
(* A file name is the sequence of its bytes; a path is the sequence of     *)
(* its names below a root.  `ov` is the patch (overlay) tree below         *)
(* args.input, `fs` the data tree below args.datadir.  A tree is a         *)
(* function from the paths that exist to their nodes.                      *)
(***************************************************************************)
EXTENDS Integers, Sequences, FiniteSets, TLC

VARIABLES
    ov,        \* the patch tree (never written by the program)
    fs,        \* the data tree, backups included
    phase,     \* "idle" | "walking" | "done" | "panicked"
    no_backup, \* Args.no_backup of the current run
    stack,     \* call stack of iterate_patch_directory, innermost frame last
    runs,      \* program runs started so far
    faults,    \* operating-system failures injected so far
    fs0,       \* the data tree when the current run started
    last,      \* the last apply_directory call: its arguments and outcome
    applied,   \* patch sources apply_directory was called on in this run
    bailed,    \* patch directories whose walk returned the "backup" error
    logged,    \* number of errors printed by the walker in this run
    taken,     \* backup path -> number of backups taken there in this run
    events,    \* PatcherEvent::Progress messages sent in this run
    rewrites,  \* apply_directory calls of this run that wrote their new archive
    gui,       \* Args.gui
    chan,      \* the mpsc channel of this run: its receiver and its queue
    again      \* the second application of the same unit, when there was one

vars == <<ov, fs, phase, no_backup, stack, runs, faults, fs0, last,
          applied, bailed, logged, taken, events, rewrites, gui, chan, again>>

----------------------------------------------------------------------------
(* Bounds of the model *)

MaxEntries == 2
MaxOverlayFiles == 2
MaxRuns == 2
MaxFaults == 1

----------------------------------------------------------------------------
(* Names, as bytes *)

N_backup == <<98, 97, 99, 107, 117, 112>>     \* "backup"
ICE_SUFFIX == <<95, 105, 99, 101>>            \* "_ice"
N_1 == <<49>>                                 \* "1"
N_2 == <<50>>                                 \* "2"
DOT == <<46>>                                 \* "."
REPLACEMENT == <<239, 191, 189>>              \* U+FFFD in UTF-8

ends_with(s, suf) ==
    /\ Len(s) >= Len(suf)
    /\ SubSeq(s, Len(s) - Len(suf) + 1, Len(s)) = suf

strip_suffix(s, suf) == SubSeq(s, 1, Len(s) - Len(suf))

(* OsStr::to_string_lossy over one- and two-byte UTF-8 sequences: a byte   *)
(* that starts no valid sequence becomes U+FFFD.                           *)
RECURSIVE to_string_lossy(_)
to_string_lossy(s) ==
    IF s = <<>> THEN <<>>
    ELSE IF s[1] < 128 THEN <<s[1]>> \o to_string_lossy(Tail(s))
    ELSE IF /\ s[1] >= 194 /\ s[1] <= 223 /\ Len(s) >= 2
            /\ s[2] >= 128 /\ s[2] <= 191
         THEN <<s[1], s[2]>> \o to_string_lossy(Tail(Tail(s)))
    ELSE REPLACEMENT \o to_string_lossy(Tail(s))

(* AsciiString::from_ascii succeeds iff every byte is 7-bit. *)
from_ascii_ok(s) == \A i \in 1..Len(s) : s[i] < 128

(* Path::extension of a file name: the part after the last dot, None when  *)
(* there is no dot or the only dot is the first byte.                      *)
LastDot(s) ==
    LET dots == {i \in 1..Len(s) : s[i] = DOT[1]}
    IN  IF dots = {} THEN 0 ELSE CHOOSE i \in dots : \A j \in dots : j <= i

extension(s) ==
    LET d == LastDot(s)
    IN  IF d <= 1 THEN [some |-> FALSE, val |-> <<>>]
        ELSE [some |-> TRUE, val |-> SubSeq(s, d + 1, Len(s))]

----------------------------------------------------------------------------
(* Trees *)

exists(t, p) == p \in DOMAIN t
is_dir(t, p) == p \in DOMAIN t /\ t[p].kind = "dir"
is_file(t, p) == p \in DOMAIN t /\ t[p].kind = "file"
join(p, n) == Append(p, n)
parent(p) == SubSeq(p, 1, Len(p) - 1)

(* The names read_dir yields for directory p, in no particular order. *)
read_dir(t, p) ==
    {q[Len(q)] : q \in {r \in DOMAIN t : Len(r) = Len(p) + 1 /\ parent(r) = p}}

Below(p, q) == Len(q) >= Len(p) /\ SubSeq(q, 1, Len(p)) = p

(* All orders in which the names of a set can be enumerated. *)
Orders(S) ==
    {o \in [1..Cardinality(S) -> S] : \A i, j \in 1..Cardinality(S) : o[i] = o[j] => i = j}

None == [some |-> FALSE, path |-> <<>>]
Some(p) == [some |-> TRUE, path |-> p]

----------------------------------------------------------------------------
(* File contents.  The ICE codec is an external library: an archive file   *)
(* is modelled by what IceArchive reports about it.                        *)

NoBlob == [tag |-> "none", version |-> 0, unpack |-> "ok", encrypted |-> FALSE,
           compressed |-> FALSE, oodle |-> FALSE, g1 |-> <<>>, g2 |-> <<>>]
Junk == [NoBlob EXCEPT !.tag = "junk"]
Partial == [NoBlob EXCEPT !.tag = "partial"]
Ice(v, enc, comp, oo, g1, g2) ==
    [tag |-> "ice", version |-> v, unpack |-> "ok", encrypted |-> enc,
     compressed |-> comp, oodle |-> oo, g1 |-> g1, g2 |-> g2]

DirNode == [kind |-> "dir", data |-> NoBlob]
FileNode(b) == [kind |-> "file", data |-> b]
OvDir == [kind |-> "dir", data |-> 0]
OvFile(d) == [kind |-> "file", data |-> d]

Entry(n, e, d) == [name |-> n, ext |-> e, data |-> d]

----------------------------------------------------------------------------
(* apply_directory, lines 145-460 *)

Faults == {"rename", "read", "create", "finish"}

Merged(err, files, seen) == [err |-> err, files |-> files, seen |-> seen]

(* merge_existing with the replacement bytes dropped: the original bytes   *)
(* are written for every entry.                                            *)
RECURSIVE merge_existing_keeps_bytes(_, _, _, _)
merge_existing_keeps_bytes(o, src, entries, fault) ==
    IF entries = <<>> THEN Merged("none", <<>>, {})
    ELSE
        LET file == Head(entries)
            rest == merge_existing_keeps_bytes(o, src, Tail(entries), fault)
        IN  Merged("none", <<file>> \o rest.files, {file.name} \cup rest.seen)

(* merge_existing without line 284: the name of a replaced entry is not    *)
(* recorded.                                                               *)
RECURSIVE merge_existing_forgets_name(_, _, _, _)
merge_existing_forgets_name(o, src, entries, fault) ==
    IF entries = <<>> THEN Merged("none", <<>>, {})
    ELSE
        LET file == Head(entries)
            replacer_path == join(src, file.name)
            rest == merge_existing_forgets_name(o, src, Tail(entries), fault)
        IN  IF is_file(o, replacer_path)
            THEN Merged("none",
                        <<Entry(file.name, file.ext, o[replacer_path].data)>> \o rest.files,
                        rest.seen)
            ELSE Merged("none", <<file>> \o rest.files, {file.name} \cup rest.seen)

(* Lines 248-297: every entry of the original group, in order, is written  *)
(* to the new archive with its name and extension, with the bytes of the   *)
(* file src/<name> when that exists, and its name is recorded.             *)
RECURSIVE merge_existing(_, _, _, _)
merge_existing(o, src, entries, fault) ==
    IF entries = <<>> THEN Merged("none", <<>>, {})
    ELSE
        LET file == Head(entries)
            replacer_path == join(src, file.name)
            err == IF ~exists(o, replacer_path) THEN "none"
                   ELSE IF ~is_file(o, replacer_path) THEN "replacer_not_file"
                   ELSE IF fault = "read" THEN "read"
                   ELSE "none"
            data == IF exists(o, replacer_path) THEN o[replacer_path].data
                    ELSE file.data
        IN  IF err # "none" THEN Merged(err, <<>>, {})
            ELSE
                LET rest == merge_existing(o, src, Tail(entries), fault)
                IN  IF rest.err # "none" THEN rest
                    ELSE Merged("none",
                                <<Entry(file.name, file.ext, data)>> \o rest.files,
                                {file.name} \cup rest.seen)

(* add_new writing the new entries in the reverse of the enumeration. *)
RECURSIVE add_new_reversed(_, _, _, _, _)
add_new_reversed(o, src, order, seen, fault) ==
    IF order = <<>> THEN Merged("none", <<>>, seen)
    ELSE
        LET raw == Head(order)
            rest == add_new_reversed(o, src, Tail(order), seen, fault)
        IN  IF to_string_lossy(raw) \in seen \/ ~is_file(o, join(src, raw))
            THEN rest
            ELSE Merged("none",
                        rest.files \o <<Entry(to_string_lossy(raw), extension(raw).val,
                                              o[join(src, raw)].data)>>,
                        rest.seen)

(* add_new naming a new entry by the file's stem, the name without its    *)
(* extension.                                                              *)
RECURSIVE add_new_stem(_, _, _, _, _)
add_new_stem(o, src, order, seen, fault) ==
    IF order = <<>> THEN Merged("none", <<>>, seen)
    ELSE
        LET raw == Head(order)
            file_name_string == to_string_lossy(raw)
            ext == extension(raw)
            e_owned == to_string_lossy(ext.val)
            stem == SubSeq(file_name_string, 1, Len(file_name_string) - Len(e_owned) - 1)
            err == IF ~from_ascii_ok(file_name_string) THEN "name_not_ascii"
                   ELSE IF ~ext.some THEN "no_extension"
                   ELSE IF ~from_ascii_ok(e_owned) THEN "ext_not_ascii"
                   ELSE IF ~is_file(o, join(src, raw)) \/ fault = "read" THEN "read"
                   ELSE "none"
        IN  IF file_name_string \in seen
            THEN add_new_stem(o, src, Tail(order), seen, fault)
            ELSE IF err # "none" THEN Merged(err, <<>>, seen)
            ELSE
                LET rest == add_new_stem(o, src, Tail(order),
                                         seen \cup {file_name_string}, fault)
                IN  IF rest.err # "none" THEN rest
                    ELSE Merged("none",
                                <<Entry(stem, e_owned, o[join(src, raw)].data)>>
                                    \o rest.files,
                                rest.seen)

(* Lines 300-338: every file of the group's directory whose name is not    *)
(* recorded becomes a new entry, in the order read_dir yields them.        *)
RECURSIVE add_new(_, _, _, _, _)
add_new(o, src, order, seen, fault) ==
    IF order = <<>> THEN Merged("none", <<>>, seen)
    ELSE
        LET raw == Head(order)
            file_name_string == to_string_lossy(raw)
            ext == extension(raw)
            e_owned == to_string_lossy(ext.val)
            err == IF ~from_ascii_ok(file_name_string) THEN "name_not_ascii"
                   ELSE IF ~ext.some THEN "no_extension"
                   ELSE IF ~from_ascii_ok(e_owned) THEN "ext_not_ascii"
                   ELSE IF ~is_file(o, join(src, raw)) \/ fault = "read" THEN "read"
                   ELSE "none"
        IN  IF file_name_string \in seen
            THEN add_new(o, src, Tail(order), seen, fault)
            ELSE IF err # "none" THEN Merged(err, <<>>, seen)
            ELSE
                LET rest == add_new(o, src, Tail(order),
                                    seen \cup {file_name_string}, fault)
                IN  IF rest.err # "none" THEN rest
                    ELSE Merged("none",
                                <<Entry(file_name_string, e_owned,
                                        o[join(src, raw)].data)>> \o rest.files,
                                rest.seen)

(* merge_group without the seen names: every file of the directory is     *)
(* added.                                                                  *)
merge_group_unseen(o, src, entries, order, fault) ==
    LET kept == merge_existing(o, src, entries, fault)
        added == add_new(o, src, order, {}, fault)
    IN  IF kept.err # "none" THEN kept
        ELSE IF ~exists(o, src) THEN kept
        ELSE IF added.err # "none" THEN added
        ELSE Merged("none", kept.files \o added.files, added.seen)

(* Lines 247-339 for group 1, 349-441 for group 2. *)
merge_group(o, src, entries, order, fault) ==
    LET kept == merge_existing(o, src, entries, fault)
    IN  IF kept.err # "none" THEN kept
        ELSE IF ~exists(o, src) THEN kept
        ELSE
            LET added == add_new(o, src, order, kept.seen, fault)
            IN  IF added.err # "none" THEN added
                ELSE Merged("none", kept.files \o added.files, added.seen)

(* std::fs::rename(from, to): the file leaves `from`. *)
rename(f, from, to) ==
    [p \in (DOMAIN f \ {from}) \cup {to} |-> IF p = to THEN f[from] ELSE f[p]]

(* File::create followed by writing b. *)
write_file(f, p, b) ==
    [q \in DOMAIN f \cup {p} |-> IF q = p THEN FileNode(b) ELSE f[q]]

(* backup_step treating an existing backup as an error. *)
backup_step_refuses(f, out_file, backup_file, fault) ==
    IF ~backup_file.some THEN [err |-> "none", fs |-> f]
    ELSE IF exists(f, backup_file.path) \/ fault = "rename"
         THEN [err |-> "rename", fs |-> f]
    ELSE [err |-> "none",
          fs |-> [p \in (DOMAIN f \ {out_file}) \cup {backup_file.path} |->
                     IF p = backup_file.path THEN f[out_file] ELSE f[p]]]

(* backup_step without the check of line 192: the backup is taken again. *)
backup_step_clobbers(f, out_file, backup_file, fault) ==
    IF ~backup_file.some THEN [err |-> "none", fs |-> f]
    ELSE IF fault = "rename" THEN [err |-> "rename", fs |-> f]
    ELSE [err |-> "none",
          fs |-> [p \in (DOMAIN f \ {out_file}) \cup {backup_file.path} |->
                     IF p = backup_file.path THEN f[out_file] ELSE f[p]]]

(* Lines 191-209. *)
backup_step(f, out_file, backup_file, fault) ==
    IF ~backup_file.some THEN [err |-> "none", fs |-> f]
    ELSE IF exists(f, backup_file.path) THEN [err |-> "none", fs |-> f]
    ELSE IF fault = "rename" \/ ~is_dir(f, parent(backup_file.path))
         THEN [err |-> "rename", fs |-> f]
    ELSE [err |-> "none", fs |-> rename(f, out_file, backup_file.path)]

(* Lines 221-226: the flags of the new archive. *)
new_writer(orig_ia, g1, g2) ==
    Ice(4, orig_ia.encrypted, FALSE, orig_ia.compressed /\ orig_ia.oodle, g1, g2)

(* Lines 443-454. *)
write_archive(f, out_file, new_ia, fault) ==
    IF fault = "create" THEN [err |-> "create", fs |-> f]
    ELSE IF fault = "finish" THEN [err |-> "finish", fs |-> write_file(f, out_file, Partial)]
    ELSE [err |-> "none", fs |-> write_file(f, out_file, new_ia)]

(* Outcome with the event also sent by a call that skips. *)
Outcome_sends_on_skip(status, err, f, sent, g1, g2) ==
    [status |-> status, err |-> err, fs |-> f, sent |-> sent \/ status = "Skip",
     g1 |-> g1, g2 |-> g2]

(* Outcome with the skip of lines 154-158 returned as an error. *)
Outcome_skip_is_error(status, err, f, sent, g1, g2) ==
    [status |-> IF status = "Skip" THEN "Err" ELSE status,
     err |-> IF status = "Skip" THEN "missing" ELSE err,
     fs |-> f, sent |-> sent, g1 |-> g1, g2 |-> g2]

Outcome(status, err, f, sent, g1, g2) ==
    [status |-> status, err |-> err, fs |-> f, sent |-> sent, g1 |-> g1, g2 |-> g2]

(* check_groups accepting a unit without group directories. *)
check_groups_lenient(o, src_1, src_2) ==
    IF exists(o, src_1) /\ ~is_dir(o, src_1) THEN "1_not_dir"
    ELSE IF exists(o, src_2) /\ ~is_dir(o, src_2) THEN "2_not_dir"
    ELSE "none"

(* Lines 169-177: the group directories of the unit. *)
check_groups(o, src_1, src_2) ==
    IF exists(o, src_1) /\ ~is_dir(o, src_1) THEN "1_not_dir"
    ELSE IF exists(o, src_2) /\ ~is_dir(o, src_2) THEN "2_not_dir"
    ELSE IF ~exists(o, src_1) /\ ~exists(o, src_2) THEN "no_groups"
    ELSE "none"

apply_directory(o, f, patch_src, out_file, backup_file, order1, order2, fault) ==
    LET src_1 == join(patch_src, N_1)
        src_2 == join(patch_src, N_2)
        Fail(e, f2) == Outcome("Err", e, f2, FALSE, <<>>, <<>>)
    IN  IF ~is_dir(o, patch_src) THEN Outcome("Panic", "patch_src", f, FALSE, <<>>, <<>>)
        ELSE IF ~exists(f, out_file) THEN Outcome("Skip", "none", f, FALSE, <<>>, <<>>)
        ELSE IF ~is_file(f, out_file) THEN Outcome("Panic", "out_file", f, FALSE, <<>>, <<>>)
        ELSE IF check_groups(o, src_1, src_2) # "none"
             THEN Fail(check_groups(o, src_1, src_2), f)
        ELSE
            LET orig_ia == f[out_file].data
            IN  IF orig_ia.tag # "ice" THEN Fail("load", f)
                ELSE
                    LET b == backup_step(f, out_file, backup_file, fault)
                    IN  IF b.err # "none" THEN Fail(b.err, b.fs)
                        ELSE IF orig_ia.version # 4 THEN Fail("version", b.fs)
                        ELSE IF orig_ia.unpack # "ok" THEN Fail("unpack", b.fs)
                        ELSE
                            LET m1 == merge_group(o, src_1, orig_ia.g1, order1, fault)
                                m2 == merge_group(o, src_2, orig_ia.g2, order2, fault)
                                new_ia == new_writer(orig_ia, m1.files, m2.files)
                                w == write_archive(b.fs, out_file, new_ia, fault)
                            IN  IF m1.err # "none" THEN Fail(m1.err, b.fs)
                                ELSE IF m2.err # "none" THEN Fail(m2.err, b.fs)
                                ELSE IF w.err # "none" THEN Fail(w.err, w.fs)
                                ELSE Outcome("Ok", "none", w.fs, TRUE, m1.files, m2.files)

(* The orders read_dir can yield for a group directory (line 300, 402). *)
GroupOrders(o, src) == IF is_dir(o, src) THEN Orders(read_dir(o, src)) ELSE {<<>>}

Call(patch_src, out_file, backup_file, order1, order2, fault, pre, r) ==
    [patch_src |-> patch_src, out_file |-> out_file, backup_file |-> backup_file,
     order1 |-> order1, order2 |-> order2, fault |-> fault, pre |-> pre,
     status |-> r.status, err |-> r.err, g1 |-> r.g1, g2 |-> r.g2]

NoCall ==
    [patch_src |-> <<>>, out_file |-> <<>>, backup_file |-> None,
     order1 |-> <<>>, order2 |-> <<>>, fault |-> "none", pre |-> <<>>,
     status |-> "NoCall", err |-> "none", g1 |-> <<>>, g2 |-> <<>>]

----------------------------------------------------------------------------
(* The progress channel, lines 482-505 and 456-459 *)

(* Lines 482-505: with --gui a thread of the window receives, without it   *)
(* the receiver is dropped before the walk starts.                         *)
channel(g) == [rx |-> IF g THEN "open" ELSE "dropped", queue |-> 0]

(* mpsc::Sender::send on the unbounded channel: the message is queued and  *)
(* the call returns at once; with the receiver gone it returns an error.   *)
send(ch) ==
    IF ch.rx = "open" THEN [ok |-> TRUE, chan |-> [ch EXCEPT !.queue = @ + 1]]
    ELSE [ok |-> FALSE, chan |-> ch]

(* after_send with a failed send returned as the call's error. *)
after_send_propagates(status, ok) == IF ok THEN status ELSE "Err"

(* Lines 457-459: the result of send is bound to _e and Ok(()) returned.   *)
after_send(status, ok) == status

(* What line 457 does to the channel when the call reached it. *)
progress(r, ch) == IF r.sent THEN send(ch) ELSE [ok |-> TRUE, chan |-> ch]

----------------------------------------------------------------------------
(* iterate_patch_directory, lines 82-143, and main, lines 462-523 *)

Frame(src, out, backup, todo) ==
    [src |-> src, out |-> out, backup |-> backup, todo |-> todo]

(* create_dir_all: the directory and every missing ancestor. *)
create_dir_all(f, p) ==
    [q \in DOMAIN f \cup {SubSeq(p, 1, n) : n \in 0..Len(p)} |->
        IF q \in DOMAIN f THEN f[q] ELSE DirNode]

(* Lines 83-103: the checks and the backup directory made before the loop. *)
enter(o, f, src, out, backup) ==
    IF ~is_dir(o, src) THEN [status |-> "Panic", fs |-> f]
    ELSE IF ~is_dir(f, out) THEN [status |-> "Panic", fs |-> f]
    ELSE IF backup.some /\ exists(f, backup.path) /\ ~is_dir(f, backup.path)
         THEN [status |-> "Panic", fs |-> f]
    ELSE IF backup.some /\ ~exists(f, backup.path)
         THEN [status |-> "Ok", fs |-> create_dir_all(f, backup.path)]
    ELSE [status |-> "Ok", fs |-> f]

(* backup_of joining the name to the backup root, not to the backup path   *)
(* of the directory walked.                                                *)
backup_of_root(backup, name) == IF backup.some THEN Some(<<N_backup, name>>) ELSE None

(* backup_of computing a backup path also when there is no backup path.    *)
backup_of_always(backup, name) ==
    Some(join(IF backup.some THEN backup.path ELSE <<N_backup>>, name))

(* Lines 116-117 and 128-129: the paths handed down. *)
ice_out(out, file_name_lossy) == join(out, strip_suffix(file_name_lossy, ICE_SUFFIX))
backup_of(backup, name) == IF backup.some THEN Some(join(backup.path, name)) ELSE None

Top == stack[Len(stack)]
Pop == SubSeq(stack, 1, Len(stack) - 1)
Advance(n) == [stack EXCEPT ![Len(stack)].todo = @ \ {n}]

(* main: one run of the program over the two roots. *)
StartRun ==
    /\ phase \in {"idle", "done", "panicked"}
    /\ runs < MaxRuns
    /\ \E nb \in BOOLEAN :
        LET backup_dir == IF nb THEN None ELSE Some(<<N_backup>>)
            e == enter(ov, fs, <<>>, <<>>, backup_dir)
        IN  /\ no_backup' = nb
            /\ fs' = e.fs
            /\ fs0' = fs
            /\ phase' = IF e.status = "Ok" THEN "walking" ELSE "panicked"
            /\ stack' = IF e.status = "Ok"
                        THEN <<Frame(<<>>, <<>>, backup_dir, read_dir(ov, <<>>))>>
                        ELSE <<>>
    /\ runs' = runs + 1
    /\ last' = NoCall
    /\ applied' = {}
    /\ bailed' = {}
    /\ logged' = 0
    /\ taken' = <<>>
    /\ events' = 0
    /\ rewrites' = 0
    /\ chan' = channel(gui)
    /\ UNCHANGED <<ov, faults, gui, again>>

(* Line 108: an entry that is no directory is passed over. *)
StepFile ==
    /\ phase = "walking"
    /\ \E n \in Top.todo :
        /\ ~is_dir(ov, join(Top.src, n))
        /\ stack' = Advance(n)
    /\ UNCHANGED <<ov, fs, phase, no_backup, runs, faults, fs0, last,
                   applied, bailed, logged, taken, events, rewrites, gui, chan, again>>

(* Lines 111-113: a directory named "backup" ends the walk of this         *)
(* directory with an error, which the caller prints (lines 133-135, 517).  *)
StepBackup ==
    /\ phase = "walking"
    /\ \E n \in Top.todo :
        /\ is_dir(ov, join(Top.src, n))
        /\ to_string_lossy(n) = N_backup
    /\ bailed' = bailed \cup {Top.src}
    /\ logged' = logged + 1
    /\ stack' = Pop
    /\ phase' = IF Len(stack) = 1 THEN "done" ELSE "walking"
    /\ UNCHANGED <<ov, fs, no_backup, runs, faults, fs0, last, applied, taken, events,
                   rewrites, gui, chan, again>>

(* after_apply with the error handed to the caller instead of printed. *)
after_apply_propagates(status, n) ==
    IF status = "Panic" THEN [phase |-> "panicked", stack |-> <<>>]
    ELSE IF status = "Err"
         THEN [phase |-> IF Len(stack) = 1 THEN "done" ELSE "walking",
               stack |-> SubSeq(stack, 1, Len(stack) - 1)]
    ELSE [phase |-> "walking", stack |-> [stack EXCEPT ![Len(stack)].todo = @ \ {n}]]

(* Lines 119-125: an error of apply_directory is printed and the loop goes *)
(* on with the next entry; a panic ends the process.                       *)
after_apply(status, n) ==
    [phase |-> IF status = "Panic" THEN "panicked" ELSE "walking",
     stack |-> IF status = "Panic" THEN <<>> ELSE Advance(n)]

(* Line 197 ran: a file appeared at the backup path. *)
count_backup(t, f, f2, backup_file) ==
    IF backup_file.some /\ ~exists(f, backup_file.path) /\ exists(f2, backup_file.path)
    THEN [p \in DOMAIN t \cup {backup_file.path} |->
             IF p \in DOMAIN t
             THEN (IF p = backup_file.path THEN t[p] + 1 ELSE t[p])
             ELSE 1]
    ELSE t

(* One call of apply_directory with the outcome r, of which r0 is the      *)
(* outcome without an operating-system failure: what it leaves in the data *)
(* tree, in the channel and in the records of the run.                     *)
Returned(patch_src, out_file, backup_file, order1, order2, fault, r, r0) ==
    LET s == progress(r, chan)
        status == after_send(r.status, s.ok)
    IN  /\ fault # "none" => faults < MaxFaults /\ r # r0
        /\ faults' = IF fault = "none" THEN faults ELSE faults + 1
        /\ fs' = r.fs
        /\ last' = Call(patch_src, out_file, backup_file, order1, order2, fault, fs,
                        [r EXCEPT !.status = status])
        /\ logged' = IF status = "Err" THEN logged + 1 ELSE logged
        /\ events' = IF r.sent THEN events + 1 ELSE events
        /\ rewrites' = IF r.status = "Ok" THEN rewrites + 1 ELSE rewrites
        /\ chan' = s.chan
        /\ taken' = count_backup(taken, fs, r.fs, backup_file)

(* Lines 114-125: a directory named *_ice is applied to its archive.       *)
StepIce ==
    /\ phase = "walking"
    /\ \E n \in Top.todo :
        LET file_entry_path == join(Top.src, n)
            file_name_lossy == to_string_lossy(n)
            out_file == ice_out(Top.out, file_name_lossy)
            backup_file == backup_of(Top.backup, strip_suffix(file_name_lossy, ICE_SUFFIX))
        IN  /\ is_dir(ov, file_entry_path)
            /\ file_name_lossy # N_backup
            /\ ends_with(file_name_lossy, ICE_SUFFIX)
            /\ \E order1 \in GroupOrders(ov, join(file_entry_path, N_1)),
                  order2 \in GroupOrders(ov, join(file_entry_path, N_2)),
                  fault \in Faults \cup {"none"} :
                /\ Returned(file_entry_path, out_file, backup_file, order1, order2, fault,
                            apply_directory(ov, fs, file_entry_path, out_file, backup_file,
                                            order1, order2, fault),
                            apply_directory(ov, fs, file_entry_path, out_file, backup_file,
                                            order1, order2, "none"))
                /\ applied' = applied \cup {file_entry_path}
                /\ phase' = after_apply(last'.status, n).phase
                /\ stack' = after_apply(last'.status, n).stack
    /\ UNCHANGED <<ov, no_backup, runs, fs0, bailed, gui, again>>

(* Lines 126-137: any other directory is walked recursively. *)
StepDir ==
    /\ phase = "walking"
    /\ \E n \in Top.todo :
        LET file_entry_path == join(Top.src, n)
            file_name_lossy == to_string_lossy(n)
            out_path == join(Top.out, n)
            next_backup_path == backup_of(Top.backup, n)
            e == enter(ov, fs, file_entry_path, out_path, next_backup_path)
        IN  /\ is_dir(ov, file_entry_path)
            /\ file_name_lossy # N_backup
            /\ ~ends_with(file_name_lossy, ICE_SUFFIX)
            /\ fs' = e.fs
            /\ phase' = IF e.status = "Panic" THEN "panicked" ELSE "walking"
            /\ stack' = IF e.status = "Panic" THEN <<>>
                        ELSE Append(Advance(n),
                                    Frame(file_entry_path, out_path, next_backup_path,
                                          read_dir(ov, file_entry_path)))
    /\ UNCHANGED <<ov, no_backup, runs, faults, fs0, last, applied, bailed,
                   logged, taken, events, rewrites, gui, chan, again>>

(* Line 142: the loop is over, the walk of this directory returns Ok. *)
Return ==
    /\ phase = "walking"
    /\ Top.todo = {}
    /\ stack' = Pop
    /\ phase' = IF Len(stack) = 1 THEN "done" ELSE "walking"
    /\ UNCHANGED <<ov, fs, no_backup, runs, faults, fs0, last, applied,
                   bailed, logged, taken, events, rewrites, gui, chan, again>>

Next == StartRun \/ StepFile \/ StepBackup \/ StepIce \/ StepDir \/ Return

(* Lines 493-499: the thread of the window takes one event off the queue.  *)
Receive ==
    /\ phase = "walking"
    /\ chan.rx = "open"
    /\ chan.queue > 0
    /\ chan' = [chan EXCEPT !.queue = @ - 1]
    /\ UNCHANGED <<ov, fs, phase, no_backup, stack, runs, faults, fs0, last,
                   applied, bailed, logged, taken, events, rewrites, gui, again>>

(* Lines 487-490: the thread of the window ends on a failed unwrap before  *)
(* it hands the receiver on; the receiver and what is queued are dropped.  *)
DropReceiver ==
    /\ phase = "walking"
    /\ chan.rx = "open"
    /\ chan' = [rx |-> "dropped", queue |-> 0]
    /\ UNCHANGED <<ov, fs, phase, no_backup, stack, runs, faults, fs0, last,
                   applied, bailed, logged, taken, events, rewrites, gui, again>>

NextGui == Next \/ Receive \/ DropReceiver

----------------------------------------------------------------------------
(* The trees the program is started on *)

TreeOf(S) == [p \in {x[1] : x \in S} |-> (CHOOSE x \in S : x[1] = p)[2]]

U_A == <<65, 95, 105, 99, 101>>      \* "A_ice"
A == <<65>>                          \* "A"
U_C == <<67, 95, 105, 99, 101>>      \* "C_ice"
C == <<67>>                          \* "C"
SUB == <<115, 117, 98>>              \* "sub"
README == <<114, 101, 97, 100, 109, 101>>  \* "readme"
N_other == <<111, 116, 104, 101, 114>> \* "other"

F_ax == <<97, 46, 120>>              \* "a.x"
F_bx == <<98, 46, 120>>              \* "b.x"
F_a == <<97>>                        \* "a"
F_ex == <<195, 169, 46, 120>>        \* "\u00e9.x" in UTF-8
F_aff == <<97, 46, 255>>             \* "a." and a byte that is no UTF-8
X == <<120>>                         \* "x"

(* Entries an original group is made of; the payload is the position. *)
EntryPool == {<<F_ax, X>>, <<F_a, X>>}

Groups(n, base) ==
    UNION {{[i \in 1..k |-> Entry(c[i][1], c[i][2], base + i)] : c \in [1..k -> EntryPool]}
           : k \in 0..n}

(* Files a group directory of the patch is made of. *)
OverlayPool ==
    {<<F_ax, OvFile(101)>>, <<F_bx, OvFile(102)>>, <<F_a, OvFile(103)>>,
     <<F_ex, OvFile(104)>>, <<F_aff, OvFile(105)>>, <<F_ax, OvDir>>}

GroupDirs(n) ==
    {S \in SUBSET OverlayPool :
        /\ Cardinality(S) <= n
        /\ \A x, y \in S : x[1] = y[1] => x = y}

(* A group directory of the patch: missing, a plain file, or a directory   *)
(* holding the files S.                                                    *)
Absent == [kind |-> "absent", files |-> {}]
Plain == [kind |-> "file", files |-> {}]
Holding(S) == [kind |-> "dir", files |-> S]

GroupTree(src, G) ==
    IF G.kind = "absent" THEN {}
    ELSE IF G.kind = "file" THEN {<<src, OvFile(100)>>}
    ELSE {<<src, OvDir>>} \cup {<<join(src, x[1]), x[2]>> : x \in G.files}

UnitTree(unit, S1, S2) ==
    {<<unit, OvDir>>} \cup GroupTree(join(unit, N_1), S1) \cup GroupTree(join(unit, N_2), S2)

NoAgain == [status |-> "NoCall", g1 |-> <<>>, g2 |-> <<>>]

InitHistory ==
    /\ phase = "idle"
    /\ no_backup = FALSE
    /\ stack = <<>>
    /\ runs = 0
    /\ faults = 0
    /\ fs0 = fs
    /\ last = NoCall
    /\ applied = {}
    /\ bailed = {}
    /\ logged = 0
    /\ taken = <<>>
    /\ events = 0
    /\ rewrites = 0
    /\ again = NoAgain

(* One patch unit A_ice against one archive A, in every shape the merge    *)
(* distinguishes.                                                          *)
MergeInputs ==
    LET rich == {<<g, S>> : g \in Groups(MaxEntries, 0),
                            S \in {Holding(F) : F \in GroupDirs(MaxOverlayFiles)}
                                 \cup {Absent, Plain}}
        plain == {<<g, S>> : g \in Groups(1, 10) \ {<<Entry(F_a, X, 11)>>},
                             S \in {Absent, Holding({<<F_ax, OvFile(111)>>})}}
        valid == {[blob |-> Ice(4, FALSE, FALSE, FALSE, x[1][1], x[2][1]),
                   s1 |-> x[1][2], s2 |-> x[2][2]] : x \in (rich \X plain) \cup (plain \X rich)}
        g == <<Entry(F_ax, X, 1)>>
        broken == {[blob |-> b, s1 |-> S, s2 |-> Absent] :
                     b \in {Junk, Ice(3, FALSE, FALSE, FALSE, g, <<>>),
                            Ice(4, TRUE, TRUE, TRUE, g, <<>>),
                            [Ice(4, FALSE, TRUE, FALSE, g, <<>>) EXCEPT !.unpack = "g1"],
                            [Ice(4, FALSE, FALSE, FALSE, g, <<>>) EXCEPT !.unpack = "g2"]},
                     S \in {Holding({<<F_ax, OvFile(101)>>}), Holding({<<F_a, OvFile(103)>>})}}
    IN  valid \cup broken

(* The unit A_ice where nothing can be opened at the archive's path: the   *)
(* path is missing or a directory.                                         *)
OddTargets ==
    {[target |-> t, s1 |-> S, s2 |-> Absent] :
        t \in {{}, {<<<<A>>, DirNode>>}},
        S \in {Absent, Plain, Holding({<<F_ax, OvFile(101)>>})}}

InitMerge ==
    /\ \/ \E m \in MergeInputs :
            /\ ov = TreeOf({<<<<>>, OvDir>>} \cup UnitTree(<<U_A>>, m.s1, m.s2))
            /\ fs = TreeOf({<<<<>>, DirNode>>, <<<<A>>, FileNode(m.blob)>>,
                            <<<<N_backup>>, DirNode>>})
       \/ \E m \in OddTargets :
            /\ ov = TreeOf({<<<<>>, OvDir>>} \cup UnitTree(<<U_A>>, m.s1, m.s2))
            /\ fs = TreeOf({<<<<>>, DirNode>>, <<<<N_backup>>, DirNode>>} \cup m.target)
    /\ gui = FALSE
    /\ chan = channel(gui)
    /\ InitHistory

(* apply_directory called as the walker calls it for A_ice below the root. *)
MergeCall ==
    /\ phase = "idle"
    /\ \E nb \in BOOLEAN,
          order1 \in GroupOrders(ov, <<U_A, N_1>>),
          order2 \in GroupOrders(ov, <<U_A, N_2>>),
          fault \in Faults \cup {"none"} :
        LET backup_file == IF nb THEN None ELSE Some(<<N_backup, A>>)
        IN  /\ Returned(<<U_A>>, <<A>>, backup_file, order1, order2, fault,
                        apply_directory(ov, fs, <<U_A>>, <<A>>, backup_file,
                                        order1, order2, fault),
                        apply_directory(ov, fs, <<U_A>>, <<A>>, backup_file,
                                        order1, order2, "none"))
            /\ no_backup' = nb
            /\ phase' = IF last'.status = "Panic" THEN "panicked" ELSE "done"
    /\ applied' = {<<U_A>>}
    /\ UNCHANGED <<ov, stack, runs, fs0, bailed, gui, again>>

(* What the second call leaves behind, r being its outcome. *)
ReturnedAgain(r) ==
    LET s == progress(r, chan)
        status == after_send(r.status, s.ok)
    IN  /\ fs' = r.fs
        /\ again' = [status |-> status, g1 |-> r.g1, g2 |-> r.g2]
        /\ logged' = IF status = "Err" THEN logged + 1 ELSE logged
        /\ events' = IF r.sent THEN events + 1 ELSE events
        /\ rewrites' = IF r.status = "Ok" THEN rewrites + 1 ELSE rewrites
        /\ chan' = s.chan
        /\ taken' = count_backup(taken, fs, r.fs, last.backup_file)

(* apply_directory called once more for the same unit, the patch unchanged, *)
(* on the archive the first call wrote.                                     *)
MergeAgain ==
    /\ phase = "done"
    /\ last.status = "Ok"
    /\ \E order1 \in GroupOrders(ov, <<U_A, N_1>>),
          order2 \in GroupOrders(ov, <<U_A, N_2>>) :
        ReturnedAgain(apply_directory(ov, fs, last.patch_src, last.out_file,
                                      last.backup_file, order1, order2, "none"))
    /\ phase' = "again"
    /\ UNCHANGED <<ov, no_backup, stack, runs, faults, fs0, last, applied, bailed, gui>>

MergeNext == MergeCall \/ MergeAgain

MergeSpec == InitMerge /\ [][MergeNext]_vars

(* A patch tree with the units A_ice and sub/C_ice over a data tree with   *)
(* the archives A and sub/C.                                               *)
GoodUnit(unit, name, d) == UnitTree(unit, Holding({<<name, OvFile(d)>>}), Absent)

WalkOverlays ==
    {TreeOf({<<<<>>, OvDir>>} \cup a \cup b \cup s) :
        a \in {GoodUnit(<<U_A>>, F_ax, 101), {<<<<U_A>>, OvDir>>}},
        b \in {{}, {<<<<N_backup>>, OvDir>>}},
        s \in {{},
               {<<<<SUB>>, OvDir>>, <<<<SUB, README>>, OvFile(7)>>}
                   \cup GoodUnit(<<SUB, U_C>>, F_bx, 102),
               {<<<<SUB>>, OvDir>>, <<<<SUB, README>>, OvFile(7)>>,
                <<<<SUB, N_backup>>, OvDir>>}
                   \cup GoodUnit(<<SUB, U_C>>, F_bx, 102)}}

WalkData ==
    LET g == <<Entry(F_ax, X, 1)>>
    IN  {TreeOf({<<<<>>, DirNode>>, <<<<N_other>>, FileNode(Junk)>>} \cup a \cup s) :
            a \in {{}, {<<<<A>>, FileNode(Ice(4, FALSE, FALSE, FALSE, g, <<>>))>>},
                   {<<<<A>>, FileNode(Ice(3, FALSE, FALSE, FALSE, g, <<>>))>>},
                   {<<<<A>>, DirNode>>}},
            s \in {{}, {<<<<SUB>>, DirNode>>,
                        <<<<SUB, C>>, FileNode(Ice(4, TRUE, TRUE, TRUE, g, g))>>}}}

Init ==
    /\ ov \in WalkOverlays
    /\ fs \in WalkData
    /\ gui = FALSE
    /\ chan = channel(gui)
    /\ InitHistory

Spec == Init /\ [][Next]_vars

(* The program started with --gui or without it on the units A_ice and     *)
(* sub/C_ice, with the window's thread receiving at any pace or ending.    *)
GuiOverlays ==
    {TreeOf({<<<<>>, OvDir>>} \cup GoodUnit(<<U_A>>, F_ax, 101) \cup s) :
        s \in {{<<<<SUB>>, OvDir>>, <<<<SUB, README>>, OvFile(7)>>}
                   \cup GoodUnit(<<SUB, U_C>>, F_bx, 102),
               {<<<<SUB>>, OvDir>>, <<<<SUB, README>>, OvFile(7)>>,
                <<<<SUB, N_backup>>, OvDir>>}
                   \cup GoodUnit(<<SUB, U_C>>, F_bx, 102)}}

GuiData ==
    LET g == <<Entry(F_ax, X, 1)>>
    IN  {TreeOf({<<<<>>, DirNode>>, <<<<SUB>>, DirNode>>,
                 <<<<SUB, C>>, FileNode(Ice(v, TRUE, TRUE, TRUE, g, g))>>} \cup a) :
            v \in {3, 4},
            a \in {{}, {<<<<A>>, FileNode(Ice(4, FALSE, FALSE, FALSE, g, <<>>))>>}}}

InitGui ==
    /\ ov \in GuiOverlays
    /\ fs \in GuiData
    /\ gui \in BOOLEAN
    /\ chan = channel(gui)
    /\ InitHistory

GuiSpec == InitGui /\ [][NextGui]_vars

----------------------------------------------------------------------------
(* What the properties below speak of: the last apply_directory call. *)

Called == last.status # "NoCall"
Rebuilt == last.status = "Ok"
OrigNode == last.pre[last.out_file]
OrigGroup(g) == IF g = 1 THEN OrigNode.data.g1 ELSE OrigNode.data.g2
NewGroup(g) == IF g = 1 THEN fs[last.out_file].data.g1 ELSE fs[last.out_file].data.g2
GroupSrc(g) == join(last.patch_src, IF g = 1 THEN N_1 ELSE N_2)
GroupOrder(g) == IF g = 1 THEN last.order1 ELSE last.order2
NamesOf(entries) == {entries[i].name : i \in 1..Len(entries)}
Distinct(entries) ==
    \A i, j \in 1..Len(entries) : entries[i].name = entries[j].name => i = j
Unchanged(p) == exists(last.pre, p) /\ exists(fs, p) /\ fs[p] = last.pre[p]

(* The steps of apply_directory between opening the archive and writing    *)
(* the new one.                                                            *)
MergeErrors ==
    {"load", "rename", "version", "unpack", "replacer_not_file", "read",
     "name_not_ascii", "no_extension", "ext_not_ascii"}

(* C1: a call that fails in a step after the archive was opened and before *)
(* the new archive is written leaves the file at archivePath in place with *)
(* its pre-call bytes, with or without a backup path.                      *)
C1_ArchiveUntouchedOnFailure ==
    (last.status = "Err" /\ last.err \in MergeErrors) => Unchanged(last.out_file)

(* C2: when the group's overlay directory holds only files named like      *)
(* entries of the original group, the rebuilt group has the same length    *)
(* and order, each entry keeps name and extension, and its bytes are the   *)
(* overlay file's where a same-named file exists, the original's otherwise.*)
C2_SameCountOrderAndBytes ==
    Rebuilt =>
        \A g \in {1, 2} :
            read_dir(ov, GroupSrc(g)) \subseteq NamesOf(OrigGroup(g)) =>
                /\ Len(NewGroup(g)) = Len(OrigGroup(g))
                /\ \A i \in 1..Len(OrigGroup(g)) :
                    LET e == OrigGroup(g)[i]
                        f == join(GroupSrc(g), e.name)
                    IN  /\ NewGroup(g)[i].name = e.name
                        /\ NewGroup(g)[i].ext = e.ext
                        /\ NewGroup(g)[i].data =
                               IF exists(ov, f) THEN ov[f].data ELSE e.data

C2_Witness ==
    /\ Rebuilt
    /\ \E g \in {1, 2} :
        /\ read_dir(ov, GroupSrc(g)) # {}
        /\ read_dir(ov, GroupSrc(g)) \subseteq NamesOf(OrigGroup(g))
        /\ \E i, j \in 1..Len(OrigGroup(g)) :
            /\ i < j
            /\ ~exists(ov, join(GroupSrc(g), OrigGroup(g)[i].name))
            /\ exists(ov, join(GroupSrc(g), OrigGroup(g)[j].name))
            /\ NewGroup(g)[j].data # OrigGroup(g)[j].data

(* The overlay files of group g that match no original entry, in the order *)
(* the directory was enumerated.                                           *)
NewFiles(g) ==
    LET IsNew(n) == to_string_lossy(n) \notin NamesOf(OrigGroup(g))
    IN  SelectSeq(GroupOrder(g), IsNew)

(* e is the trailing suffix of the file name n: what follows its last dot. *)
IsSuffixOf(e, n) ==
    \E k \in 1..Len(n) :
        /\ n[k] = 46
        /\ e = SubSeq(n, k + 1, Len(n))
        /\ \A i \in 1..Len(e) : e[i] # 46

(* C3: the overlay files that match no original entry become new entries   *)
(* exactly once each, after all carried-over entries and in enumeration    *)
(* order, with the file's trailing suffix as extension and its bytes.      *)
C3_NewEntriesAppendedInOrder ==
    Rebuilt =>
        \A g \in {1, 2} :
            LET n == Len(OrigGroup(g))
                new == NewFiles(g)
            IN  /\ Len(NewGroup(g)) = n + Len(new)
                /\ \A i \in 1..n : NewGroup(g)[i].name = OrigGroup(g)[i].name
                /\ \A i \in 1..Len(new) :
                    /\ NewGroup(g)[n + i].name = new[i]
                    /\ IsSuffixOf(NewGroup(g)[n + i].ext, new[i])
                    /\ NewGroup(g)[n + i].data = ov[join(GroupSrc(g), new[i])].data

C3_Witness ==
    /\ Rebuilt
    /\ Len(OrigGroup(1)) >= 1
    /\ Len(NewFiles(1)) = 2
    /\ NewFiles(1)[1] = F_bx


(* The rebuilt group g holds one entry per original entry and per overlay  *)
(* file, nothing else, each with the bytes it must have.                   *)
AccountsForAll(g) ==
    LET orig == OrigGroup(g)
        new == NewGroup(g)
        files == read_dir(ov, GroupSrc(g))
        Wanted(n) == IF n \in files THEN ov[join(GroupSrc(g), n)].data
                     ELSE (CHOOSE e \in {orig[i] : i \in 1..Len(orig)} : e.name = n).data
    IN  /\ NamesOf(new) = NamesOf(orig) \cup files
        /\ Len(new) = Cardinality(NamesOf(orig) \cup files)
        /\ \A i \in 1..Len(new) : new[i].data = Wanted(new[i].name)

(* C4 as stated: every rebuilt group has pairwise distinct names and       *)
(* accounts for every original entry and every overlay file exactly once.  *)
C4_Original ==
    Rebuilt => \A g \in {1, 2} : Distinct(NewGroup(g)) /\ AccountsForAll(g)

(* C4, amended: a rebuilt group whose original group had pairwise distinct *)
(* names has pairwise distinct names and accounts for every original entry *)
(* and every overlay file exactly once.                                    *)
C4_DistinctAndAccounted ==
    Rebuilt =>
        \A g \in {1, 2} :
            Distinct(OrigGroup(g)) => Distinct(NewGroup(g)) /\ AccountsForAll(g)

C4_Witness ==
    /\ Rebuilt
    /\ Len(OrigGroup(1)) = 2
    /\ Distinct(OrigGroup(1))
    /\ \E n \in read_dir(ov, GroupSrc(1)) : n \in NamesOf(OrigGroup(1))
    /\ \E n \in read_dir(ov, GroupSrc(1)) : n \notin NamesOf(OrigGroup(1))
    /\ Len(NewGroup(1)) = 3


EncodingErrors == {"name_not_ascii", "ext_not_ascii", "no_extension"}

(* Group g's overlay directory holds a file that matches no original entry *)
(* and whose name has a byte above 127 or no dot.                          *)
BadNewFile(g) ==
    \E n \in read_dir(ov, GroupSrc(g)) :
        /\ to_string_lossy(n) \notin NamesOf(OrigGroup(g))
        /\ \/ \E k \in 1..Len(n) : n[k] > 127
           \/ \A k \in 1..Len(n) : n[k] # 46

Opened ==
    /\ Called
    /\ is_file(last.pre, last.out_file)
    /\ OrigNode.data.tag = "ice"

(* C9: a call whose overlay holds a would-be new entry with a non-7-bit    *)
(* name or extension, or without extension, fails, and when it fails with  *)
(* the encoding or missing-extension error the archive file is in place    *)
(* with its pre-call bytes.                                                *)
C9_RejectedBeforeAnyWrite ==
    (Opened /\ \E g \in {1, 2} : BadNewFile(g)) =>
        /\ ~Rebuilt
        /\ last.err \in EncodingErrors => Unchanged(last.out_file)

(* The PatchUnit of the last call holds the single file 1/f and nothing    *)
(* for group 2.                                                            *)
OnlyOverlayFile(f) ==
    /\ ~exists(ov, GroupSrc(2))
    /\ read_dir(ov, GroupSrc(1)) = {f}
    /\ is_file(ov, join(GroupSrc(1), f))

(* C10 as stated: with the single overlay file 1/n.e for an entry of name  *)
(* n and extension e, that entry gets the file's bytes, no entry is added, *)
(* the other entries of group 1 and all of group 2 are as before.          *)
C10_Original ==
    Rebuilt =>
        \A i \in 1..Len(OrigGroup(1)) :
            OnlyOverlayFile(OrigGroup(1)[i].name \o DOT \o OrigGroup(1)[i].ext) =>
                LET f == OrigGroup(1)[i].name \o DOT \o OrigGroup(1)[i].ext
                IN  /\ Len(NewGroup(1)) = Len(OrigGroup(1))
                    /\ \A j \in 1..Len(OrigGroup(1)) :
                        /\ NewGroup(1)[j].name = OrigGroup(1)[j].name
                        /\ NewGroup(1)[j].ext = OrigGroup(1)[j].ext
                        /\ NewGroup(1)[j].data =
                               IF j = i THEN ov[join(GroupSrc(1), f)].data
                               ELSE OrigGroup(1)[j].data
                    /\ NewGroup(2) = OrigGroup(2)

(* C10, amended: with the single overlay file 1/n, named exactly like the  *)
(* stored name n of an entry, every entry named n gets the file's bytes,   *)
(* no entry is added, the entries of group 1 with another name and all of  *)
(* group 2 are as before.                                                  *)
C10_SingleReplacement ==
    Rebuilt =>
        \A i \in 1..Len(OrigGroup(1)) :
            OnlyOverlayFile(OrigGroup(1)[i].name) =>
                LET f == OrigGroup(1)[i].name
                IN  /\ Len(NewGroup(1)) = Len(OrigGroup(1))
                    /\ \A j \in 1..Len(OrigGroup(1)) :
                        /\ NewGroup(1)[j].name = OrigGroup(1)[j].name
                        /\ NewGroup(1)[j].ext = OrigGroup(1)[j].ext
                        /\ NewGroup(1)[j].data =
                               IF OrigGroup(1)[j].name = f
                               THEN ov[join(GroupSrc(1), f)].data
                               ELSE OrigGroup(1)[j].data
                    /\ NewGroup(2) = OrigGroup(2)

C10_Witness ==
    /\ Rebuilt
    /\ OnlyOverlayFile(F_ax)
    /\ Len(OrigGroup(1)) = 2
    /\ OrigGroup(1)[1].name = F_a
    /\ OrigGroup(1)[2].name = F_ax
    /\ Len(OrigGroup(2)) = 1
    /\ NewGroup(1)[2].data = 101


----------------------------------------------------------------------------
(* Properties of the walk *)

BackupPath == last.backup_file.path

(* The last call found an archive it can patch: a version 4 ICE file, a    *)
(* group directory in the unit, no operating-system failure.               *)
Patchable ==
    /\ Opened
    /\ OrigNode.data.version = 4
    /\ OrigNode.data.unpack = "ok"
    /\ last.fault = "none"
    /\ is_dir(ov, GroupSrc(1))
    /\ ~exists(ov, GroupSrc(2))
    /\ \A n \in read_dir(ov, GroupSrc(1)) :
        is_file(ov, join(GroupSrc(1), n)) /\ from_ascii_ok(n) /\ IsSuffixOf(X, n)

(* C5: with backups enabled, a patch that finds no backup leaves one that  *)
(* holds the archive's pre-patch bytes; a patch that finds the backup      *)
(* leaves its bytes as they are and still rewrites the archive.            *)
C5_BackupFirstThenKept ==
    (Called /\ last.backup_file.some) =>
        /\ (Rebuilt /\ ~exists(last.pre, BackupPath)) =>
               is_file(fs, BackupPath) /\ fs[BackupPath] = OrigNode
        /\ exists(last.pre, BackupPath) =>
               /\ Unchanged(BackupPath)
               /\ Patchable =>
                      /\ Rebuilt
                      /\ is_file(fs, last.out_file)
                      /\ fs[last.out_file].data.tag = "ice"
                      /\ NewGroup(1) = last.g1
                      /\ \A i \in 1..Len(last.g1) :
                            exists(ov, join(GroupSrc(1), last.g1[i].name)) =>
                                last.g1[i].data = ov[join(GroupSrc(1), last.g1[i].name)].data

C5_Witness ==
    /\ runs = 2
    /\ Called
    /\ last.backup_file.some
    /\ exists(last.pre, BackupPath)
    /\ Patchable
    /\ Rebuilt
    /\ fs[BackupPath] # fs[last.out_file]
    /\ fs[BackupPath].data.g1[1].data = 1

IsBackupFile(f, p) == Len(p) >= 2 /\ p[1] = N_backup /\ is_file(f, p)

(* C6: a file at a backup path keeps its bytes in every step, and no       *)
(* backup path has a backup taken twice in one run.                        *)
C6_BackupsNeverChange ==
    /\ [][\A p \in DOMAIN fs : IsBackupFile(fs, p) => (exists(fs', p) /\ fs'[p] = fs[p])]_vars
    /\ [](\A p \in DOMAIN taken : taken[p] <= 1)

C6_Witness ==
    /\ runs = 2
    /\ Called
    /\ last.backup_file.some
    /\ IsBackupFile(last.pre, BackupPath)
    /\ last.status = "Err"
    /\ DOMAIN taken = {}
    /\ \E p \in DOMAIN fs : IsBackupFile(fs, p) /\ p # BackupPath

(* The data and backup paths that belong to the patch directory d. *)
Subtree(d, p) == Below(d, p) \/ Below(<<N_backup>> \o d, p)

(* C7: when the walk of a directory ended on a subdirectory named          *)
(* "backup", no file of that directory's subtree was backed up or          *)
(* rewritten in this run.                                                  *)
C7_NoMutationBelowBackup ==
    \A d \in bailed :
        \A p \in DOMAIN fs \cup DOMAIN fs0 :
            (Subtree(d, p) /\ (is_file(fs, p) \/ is_file(fs0, p))) =>
                exists(fs, p) /\ exists(fs0, p) /\ fs[p] = fs0[p]

(* The PatchUnits of the patch tree and their archives. *)
IsUnitName(n) == to_string_lossy(n) # N_backup /\ ends_with(to_string_lossy(n), ICE_SUFFIX)
IsPlainName(n) == to_string_lossy(n) # N_backup /\ ~ends_with(to_string_lossy(n), ICE_SUFFIX)
Units ==
    {p \in DOMAIN ov :
        /\ Len(p) >= 1
        /\ is_dir(ov, p)
        /\ IsUnitName(p[Len(p)])
        /\ \A i \in 1..(Len(p) - 1) : IsPlainName(p[i])}
Target(p) == join(parent(p), strip_suffix(to_string_lossy(p[Len(p)]), ICE_SUFFIX))

----------------------------------------------------------------------------
(* Properties of the checks apply_directory makes before it merges *)

(* C11: a call that opened an archive whose version is not 4 fails with    *)
(* the version error, and neither the archive's path nor the backup path   *)
(* has changed: no backup file was created, nothing was written.           *)
C11_VersionCheckedBeforeBackup ==
    (Opened /\ OrigNode.data.version # 4 /\ check_groups(ov, GroupSrc(1), GroupSrc(2)) = "none") =>
        /\ last.status = "Err"
        /\ last.err = "version"
        /\ Unchanged(last.out_file)
        /\ last.backup_file.some =>
               (exists(fs, BackupPath) <=> exists(last.pre, BackupPath))

(* C12: the events sent in a run are as many as the archives rewritten in  *)
(* it; a step sends at most one event, and only a call that returned Ok    *)
(* with the complete new archive at archivePath; with a receiver the event *)
(* is queued; a call that fails or skips sends none.                       *)
C12_OneEventPerRewrite ==
    /\ [](events = rewrites)
    /\ [][events' > events =>
              /\ events' = events + 1
              /\ chan.rx = "open" => chan' = [chan EXCEPT !.queue = @ + 1]
              /\ last'.status = "Ok"
              /\ is_file(fs', last'.out_file)
              /\ fs'[last'.out_file].data.tag = "ice"
              /\ fs'[last'.out_file].data.g1 = last'.g1
              /\ fs'[last'.out_file].data.g2 = last'.g2]_vars
    /\ [][(last' # last /\ last'.status \in {"Err", "Skip", "Panic"}) =>
              events' = events /\ chan' = chan]_vars

C12_Witness ==
    /\ phase = "done"
    /\ Cardinality(applied) = 2
    /\ last.status = "Skip"
    /\ logged = 0
    /\ events = 1
    /\ rewrites = 1
    /\ chan.rx = "open"
    /\ chan.queue = 1

(* C13: no structural error ends the process: a unit whose target exists   *)
(* and is no plain file makes its call return an error, and a plain patch  *)
(* directory without a directory of its name in the data tree does not     *)
(* stop the walk.                                                          *)
C13_StructuralErrorsAreLocal ==
    /\ phase # "panicked"
    /\ (Called /\ exists(last.pre, last.out_file) /\ ~is_file(last.pre, last.out_file)) =>
           last.status = "Err"

(* C14: a call whose archive path does not exist returns success without   *)
(* an error, leaves the data tree as it is, so that no file appears at the *)
(* archive's path or the backup path, sends no event, and the walk goes on *)
(* in the same directory.                                                  *)
C14_MissingArchiveSkipped ==
    /\ []((Called /\ ~exists(last.pre, last.out_file)) =>
              /\ last.status = "Skip"
              /\ last.err = "none"
              /\ ~exists(fs, last.out_file)
              /\ last.backup_file.some =>
                     (exists(fs, BackupPath) => Unchanged(BackupPath)))
    /\ [][(last' # last /\ Called' /\ ~exists(fs, last'.out_file)) =>
              /\ fs' = fs
              /\ events' = events
              /\ logged' = logged
              /\ phase' = "walking"
              /\ Len(stack') = Len(stack)]_vars

C14_Witness ==
    /\ phase = "walking"
    /\ last.status = "Skip"
    /\ last.backup_file.some
    /\ Top.todo # {}
    /\ events = 0

(* The unit of the last call has no usable group directory. *)
InvalidUnit ==
    \/ ~exists(ov, GroupSrc(1)) /\ ~exists(ov, GroupSrc(2))
    \/ exists(ov, GroupSrc(1)) /\ ~is_dir(ov, GroupSrc(1))
    \/ exists(ov, GroupSrc(2)) /\ ~is_dir(ov, GroupSrc(2))

(* C15 as stated: for a unit without "1" and "2", or with a "1" or "2"     *)
(* that is no directory, the call returns an error and the data tree is    *)
(* as before.                                                              *)
C15_Original ==
    (Called /\ InvalidUnit) => last.status = "Err" /\ fs = last.pre

(* C15, amended: for such a unit the data tree is as before the call, and  *)
(* the call returns an error when the target archive exists as a plain     *)
(* file.                                                                   *)
C15_InvalidUnitRejected ==
    (Called /\ InvalidUnit) =>
        /\ fs = last.pre
        /\ last.status # "Ok"
        /\ is_file(last.pre, last.out_file) =>
               /\ last.status = "Err"
               /\ last.err \in {"1_not_dir", "2_not_dir", "no_groups"}

C15_Witness ==
    /\ Called
    /\ ~exists(ov, GroupSrc(1))
    /\ ~exists(ov, GroupSrc(2))
    /\ is_file(last.pre, last.out_file)
    /\ OrigNode.data.tag = "ice"
    /\ last.backup_file.some
    /\ last.err = "no_groups"
    /\ is_file(fs, last.out_file)

----------------------------------------------------------------------------
(* Frame of a walk, the progress channel, repeated application *)

Targets == {Target(u) : u \in Units}
InBackup(p) == Len(p) >= 1 /\ p[1] = N_backup

(* C16: a call is made for a PatchUnit d/X_ice with the archive d/X and    *)
(* the backup path backup/d/X; every path of the data tree outside the     *)
(* backup root that is no unit's archive is in the tree as when the run    *)
(* started, so that plain files of the patch leave no trace; every file    *)
(* that appeared below the backup root is the backup of a unit's archive.  *)
C16_OnlyTargetsChange ==
    /\ Called =>
           /\ last.patch_src \in Units
           /\ last.out_file = Target(last.patch_src)
           /\ last.backup_file.some => BackupPath = <<N_backup>> \o last.out_file
    /\ \A p \in DOMAIN fs \cup DOMAIN fs0 :
           (~InBackup(p) /\ p \notin Targets) =>
               exists(fs, p) /\ exists(fs0, p) /\ fs[p] = fs0[p]
    /\ \A p \in DOMAIN fs :
           (InBackup(p) /\ is_file(fs, p) /\ ~exists(fs0, p)) =>
               \E u \in Units :
                   /\ p = <<N_backup>> \o Target(u)
                   /\ is_file(fs0, Target(u))
                   /\ fs[p] = fs0[Target(u)]

C16_Witness ==
    /\ phase = "done"
    /\ is_file(ov, <<SUB, README>>)
    /\ is_file(fs0, <<SUB, C>>)
    /\ is_file(fs, <<SUB, C>>)
    /\ fs[<<SUB, C>>] # fs0[<<SUB, C>>]
    /\ is_file(fs0, <<A>>)
    /\ is_file(fs, <<A>>)
    /\ fs[<<A>>] # fs0[<<A>>]
    /\ is_file(fs, <<N_backup, SUB, C>>)
    /\ fs[<<N_other>>] = fs0[<<N_other>>]
    /\ ~exists(fs, <<SUB, README>>)

(* C17: in a run without backups no path below the backup root appears,    *)
(* disappears or changes, no call is given a backup path, no backup is     *)
(* taken, no path of the data tree disappears, and a call that rewrites    *)
(* leaves the new archive at the archive's own path.                       *)
C17_NoBackupBypass ==
    (no_backup /\ phase # "idle") =>
        /\ \A p \in DOMAIN fs \cup DOMAIN fs0 :
               InBackup(p) => exists(fs, p) /\ exists(fs0, p) /\ fs[p] = fs0[p]
        /\ DOMAIN fs0 \subseteq DOMAIN fs
        /\ DOMAIN taken = {}
        /\ \A i \in 1..Len(stack) : ~stack[i].backup.some
        /\ Called =>
               /\ ~last.backup_file.some
               /\ Rebuilt =>
                      /\ is_file(fs, last.out_file)
                      /\ fs[last.out_file].data.g1 = last.g1
                      /\ fs[last.out_file].data.g2 = last.g2

C17_Witness ==
    /\ no_backup
    /\ phase = "done"
    /\ ~exists(fs, <<N_backup>>)
    /\ rewrites = 2
    /\ fs[<<A>>].data.g1[1].data = 101

(* C18: in every step that makes a call, the status, the error and the     *)
(* data tree left behind are those of apply_directory on the same          *)
(* arguments, whatever the receiver's state and the length of the queue;   *)
(* a step that takes an event off the queue changes nothing but the        *)
(* channel.                                                                *)
C18_ChannelNeverDecides ==
    /\ [][(last' # last /\ Called') =>
              LET r == apply_directory(ov, fs, last'.patch_src, last'.out_file,
                                       last'.backup_file, last'.order1, last'.order2,
                                       last'.fault)
              IN  /\ fs' = r.fs
                  /\ last'.status = r.status
                  /\ last'.err = r.err
                  /\ logged' = IF r.status = "Err" THEN logged + 1 ELSE logged]_vars
    /\ [][(runs' = runs /\ chan' # chan /\ events' = events) =>
              <<fs', phase', stack', last', logged'>> = <<fs, phase, stack, last, logged>>]_vars

C18_Witness ==
    /\ phase = "done"
    /\ gui
    /\ chan.rx = "open"
    /\ chan.queue = 1
    /\ events = 2
    /\ logged = 0

(* C19: a second application of the unchanged unit to the archive the      *)
(* first application wrote, when it rebuilds the archive, writes both      *)
(* groups as the first application wrote them, whatever the order in which *)
(* the directories are enumerated the second time.                         *)
C19_SecondApplicationSame ==
    again.status = "Ok" =>
        /\ again.g1 = last.g1
        /\ again.g2 = last.g2
        /\ fs[last.out_file].data.g1 = last.g1
        /\ fs[last.out_file].data.g2 = last.g2

C19_Witness ==
    /\ again.status = "Ok"
    /\ Len(OrigGroup(1)) = 2
    /\ Len(last.g1) = 3
    /\ last.g1[1].data = 101
    /\ last.g1[3].name = F_bx
    /\ Len(last.order1) = 2
    /\ last.backup_file.some

====
